---- MODULE Spec2Model ----
(***************************************************************************)
(* vdc-display: shift progress and stage breakdown calculators over a      *)
(* read-only store (vehicles, work_orders, shift_summaries,                *)
(* production_stages).                                                     *)
(*                                                                         *)
(* Hours are counted in half hours (the finest figure of the source is the *)
(* 18.5 of get_demo_stages); the Python code computes with IEEE doubles,   *)
(* which are exact on sums of such values and are modelled bit for bit in  *)
(* the percentage (a division and a multiplication that round; the         *)
(* quotient of two hours figures is the same in either unit).              *)
(* A calendar day is a day number; an arrival_time is a number of hours    *)
(* since day 0, so that DATE(arrival_time) is arrival_time \div 24.        *)
(*                                                                         *)
(* The calculators are modelled twice: as one step each (a call against a  *)
(* store nobody touches meanwhile), and, for app.py's load_data, query by  *)
(* query and clock read by clock read, with the wall clock, the store file *)
(* and the store's writers moving in between.                              *)
(***************************************************************************)
EXTENDS Integers, Sequences, FiniteSets, TLC

VARIABLES
    vehicles, work_orders, shift_summaries, production_stages,  \* the store's tables
    ret,        \* the value the last call returned
    clock,      \* the wall clock, in hours since day 0
    database,   \* the store file at DATABASE_PATH: "ok", "missing" or "unreadable"
    pc,         \* where the running load_data is
    frame,      \* the locals of the running load_data and of its callees
    hist,       \* the summaries of the store states the running call has lived through
    log         \* the values returned since the store last changed

store == <<vehicles, work_orders, shift_summaries, production_stages>>
process == <<clock, database, pc, frame, hist, log>>
vars == <<vehicles, work_orders, shift_summaries, production_stages, ret,
          clock, database, pc, frame, hist, log>>

(***************************************************************************)
(* Bounds and input domains                                                *)
(***************************************************************************)
\* rows the writers put in the store, all tables together, when the workload
\* is computed and when the stage breakdown is computed
MaxWorkloadRows == 3
MaxStageRows == 4
\* stages of the catalog
MaxStages == 2
\* largest total_hours the percentage rule is applied to on its own
MaxPercentHours == 60

\* SQL NULL in a numeric column, Python None as an argument
NULL == 0 - 1
None == "None"
NoDate == 0

Shifts == {"day", "night"}
Dates == {1, 2}
Hours == 0 .. 23
Minutes == {0, 1, 30, 58, 59}
ArrivalTimes == {44, 56}
LaborHours == {21, 29}
VehicleStatuses == {"delivered", "in_progress"}
WorkOrderStatuses == {"complete", "pending"}
EstimatedHours == {21}
ActualHours == {NULL, 29}
CarryoverHours == {NULL, 29}
CreatedAts == {1, 2}
StageOrders == {1, 2}
StageNames == <<"Installation", "PPO", "Shuttle", "FQA", "Detail", "Yard">>

Rows == Len(vehicles) + Len(work_orders) + Len(shift_summaries) + Len(production_stages)

(***************************************************************************)
(* IEEE-754 double arithmetic of  int(completed / total * 100)             *)
(* A positive double is kept as an exact integer h*2^36 + m*2^18 + l       *)
(* times 2^e (three 18-bit limbs, so that no intermediate passes 2^31).    *)
(***************************************************************************)
Limb == 2 ^ 18

RECURSIVE Normalize(_, _, _)
\* d * 2^e <= c < d * 2^(e+1): the binary exponent of c / d
Normalize(c, d, e) ==
    IF c >= 2 * d THEN Normalize(c, 2 * d, e + 1)
    ELSE IF c < d THEN Normalize(2 * c, d, e - 1)
    ELSE [c |-> c, d |-> d, e |-> e]

RECURSIVE LongDiv(_, _, _, _)
\* n more quotient bits of r / d appended to acc, and the remainder
LongDiv(r, d, n, acc) ==
    IF n = 0 THEN [q |-> acc, r |-> r]
    ELSE IF 2 * r >= d THEN LongDiv(2 * r - d, d, n - 1, 2 * acc + 1)
         ELSE LongDiv(2 * r, d, n - 1, 2 * acc)

Carry(h, m, l, e) ==
    LET m1 == m + (l \div Limb)
        h1 == h + (m1 \div Limb)
    IN [h |-> h1, m |-> m1 % Limb, l |-> l % Limb, e |-> e]

\* c / d for integers c > 0, d > 0: 53 significant bits, round to nearest even
FloatDiv(c, d) ==
    LET n     == Normalize(c, d, 0)
        qh    == LongDiv(n.c - n.d, n.d, 17, 1)
        qm    == LongDiv(qh.r, n.d, 18, 0)
        ql    == LongDiv(qm.r, n.d, 18, 0)
        guard == ql.q % 2
        odd   == (ql.q \div 2) % 2
        up    == guard = 1 /\ (ql.r # 0 \/ odd = 1)
    IN Carry(qh.q, qm.q, ql.q - guard + (IF up THEN 2 ELSE 0), n.e - 53)

\* x * 100 for a double x: the exact product x * 25 * 4 rounded to 53 bits
FloatMul100(x) ==
    LET y    == Carry(x.h * 25, x.m * 25, x.l * 25, x.e + 2)
        s    == IF y.h >= 2 ^ 22 THEN 6 ELSE 5
        low  == y.l % (2 ^ s)
        half == 2 ^ (s - 1)
        odd  == (y.l \div (2 ^ s)) % 2
        up   == low > half \/ (low = half /\ odd = 1)
    IN Carry(y.h, y.m, y.l - low + (IF up THEN 2 ^ s ELSE 0), y.e)

\* int(x): truncation of a double below 2^31
IntTrunc(x) ==
    LET n == 0 - x.e
    IN IF n >= 66 THEN 0
       ELSE IF n >= 36 THEN x.h \div (2 ^ (n - 36))
       ELSE x.h * (2 ^ (36 - n)) + (x.m \div (2 ^ (n - 18)))

FloatPercent(completed, total) ==
    IF completed = 0 THEN 0 ELSE IntTrunc(FloatMul100(FloatDiv(completed, total)))

\* shift_progress.py: int((completed_hours / total_hours * 100) if total_hours > 0 else 0)
WorkloadPercent(completed_hours, total_hours) ==
    IF total_hours > 0 THEN FloatPercent(completed_hours, total_hours) ELSE 0

\* stage_breakdown.py: int((row['hours_completed'] / total * 100) if total > 0 else 0)
StagePercent(hours_completed, total) ==
    IF total > 0 THEN FloatPercent(hours_completed, total) ELSE 0

(***************************************************************************)
(* SQL helpers                                                             *)
(***************************************************************************)
SqlDate(t) == t \div 24

Coalesce(x, y) == IF x = NULL THEN y ELSE x

RECURSIVE SqlSumFrom(_, _)
\* SUM over column values s[i..]: NULL values are skipped, NULL when none is left
SqlSumFrom(s, i) ==
    IF i > Len(s) THEN NULL
    ELSE LET rest == SqlSumFrom(s, i + 1)
         IN IF s[i] = NULL THEN rest
            ELSE IF rest = NULL THEN s[i] ELSE s[i] + rest

SqlSum(s) == SqlSumFrom(s, 1)

Indices(n) == [i \in 1 .. n |-> i]

Range(s) == {s[i] : i \in DOMAIN s}

(***************************************************************************)
(* get_current_shift                                                       *)
(***************************************************************************)
\* the boundary hour 18 taken as day
get_current_shift_Through18(now) ==
    LET hour == now.hour
    IN IF 6 <= hour /\ hour <= 18 THEN "day" ELSE "night"

get_current_shift(now) ==
    LET hour == now.hour
    IN IF 6 <= hour /\ hour < 18 THEN "day" ELSE "night"

\* the shifts a call may resolve an omitted shift to, over the clock readings
ResolveShift(shift) ==
    IF shift = None THEN {get_current_shift([hour |-> h, minute |-> 0]) : h \in Hours}
    ELSE {shift}

\* date.today() when target_date is omitted
ResolveDate(target_date) ==
    IF target_date = NoDate THEN Dates ELSE {target_date}

GetCurrentShiftCall ==
    \E h \in Hours, m \in Minutes :
      LET now == [hour |-> h, minute |-> m]
      IN /\ ret' = [op |-> "get_current_shift", now |-> now,
                    value |-> get_current_shift(now)]
         /\ UNCHANGED store
         /\ UNCHANGED process

(***************************************************************************)
(* calculate_shift_workload                                                *)
(***************************************************************************)
VehicleMatches(v, shift, date_str) ==
    v.shift_assigned = shift /\ SqlDate(v.arrival_time) = date_str

\* completed_vehicles counted over the date's delivered vehicles of any shift
vehicles_query_DeliveredAnyShift(shift, date_str) ==
    LET ids == SelectSeq(Indices(Len(vehicles)),
                         LAMBDA i : VehicleMatches(vehicles[i], shift, date_str))
    IN [total_vehicles |-> Len(ids),
        total_hours |->
            Coalesce(SqlSum([k \in 1 .. Len(ids) |-> vehicles[ids[k]].estimated_labor_hours]), 0),
        completed_vehicles |->
            Len(SelectSeq(Indices(Len(vehicles)),
                          LAMBDA i : /\ SqlDate(vehicles[i].arrival_time) = date_str
                                     /\ vehicles[i].status = "delivered"))]

\* an aggregate without GROUP BY always has its one row, so the code's
\* "if not vehicle_stats" default is never taken
vehicles_query(shift, date_str) ==
    LET ids == SelectSeq(Indices(Len(vehicles)),
                         LAMBDA i : VehicleMatches(vehicles[i], shift, date_str))
    IN [total_vehicles |-> Len(ids),
        total_hours |->
            Coalesce(SqlSum([k \in 1 .. Len(ids) |-> vehicles[ids[k]].estimated_labor_hours]), 0),
        completed_vehicles |->
            Len(SelectSeq(ids, LAMBDA i : vehicles[i].status = "delivered"))]

completed_query(shift, date_str) ==
    LET ids == SelectSeq(Indices(Len(work_orders)),
                         LAMBDA i : /\ work_orders[i].vehicle_id \in DOMAIN vehicles
                                    /\ VehicleMatches(vehicles[work_orders[i].vehicle_id],
                                                      shift, date_str)
                                    /\ work_orders[i].status = "complete")
    IN [completed_hours |->
            Coalesce(SqlSum([k \in 1 .. Len(ids) |-> work_orders[ids[k]].actual_hours]), 0)]

\* LIMIT 1 without the ORDER BY: any row of the pair
carryover_query_AnyRow(date_str, shift) ==
    LET ids == {i \in DOMAIN shift_summaries :
                    /\ shift_summaries[i].shift_date = date_str
                    /\ shift_summaries[i].shift_type = shift}
    IN IF ids = {} THEN {<<>>}
       ELSE {<<[carryover_hours |-> Coalesce(shift_summaries[i].carryover_hours, 0)]>> :
                i \in ids}

\* the result lists ORDER BY created_at DESC LIMIT 1 may give: any one row of the
\* pair with the greatest created_at, or the empty list when the pair has no row
\* (query_one's None)
carryover_query(date_str, shift) ==
    LET ids == {i \in DOMAIN shift_summaries :
                    /\ shift_summaries[i].shift_date = date_str
                    /\ shift_summaries[i].shift_type = shift}
        first == {i \in ids : \A j \in ids :
                      shift_summaries[j].created_at <= shift_summaries[i].created_at}
    IN IF ids = {} THEN {<<>>}
       ELSE {<<[carryover_hours |-> Coalesce(shift_summaries[i].carryover_hours, 0)]>> :
                i \in first}

\* a module-level counter of the calls so far, added to vehicles_total
WorkloadSummary_CountsCalls(shift, date_str, vehicle_stats, completed_stats, carryover_stats) ==
    LET completed_hours == completed_stats.completed_hours
        carryover_hours == IF carryover_stats = <<>> THEN 0
                           ELSE carryover_stats[1].carryover_hours
        new_hours == vehicle_stats.total_hours
        total_hours == new_hours + carryover_hours
    IN [shift |-> shift,
        date |-> date_str,
        new_hours |-> new_hours,
        carryover_hours |-> carryover_hours,
        total_hours |-> total_hours,
        completed_hours |-> completed_hours,
        percent_complete |-> WorkloadPercent(completed_hours, total_hours),
        vehicles_total |-> vehicle_stats.total_vehicles + Len(log),
        vehicles_completed |-> vehicle_stats.completed_vehicles]

\* total_hours without the carryover
WorkloadSummary_NoCarryover(shift, date_str, vehicle_stats, completed_stats, carryover_stats) ==
    LET completed_hours == completed_stats.completed_hours
        carryover_hours == IF carryover_stats = <<>> THEN 0
                           ELSE carryover_stats[1].carryover_hours
        new_hours == vehicle_stats.total_hours
        total_hours == new_hours
    IN [shift |-> shift,
        date |-> date_str,
        new_hours |-> new_hours,
        carryover_hours |-> carryover_hours,
        total_hours |-> total_hours,
        completed_hours |-> completed_hours,
        percent_complete |-> WorkloadPercent(completed_hours, total_hours),
        vehicles_total |-> vehicle_stats.total_vehicles,
        vehicles_completed |-> vehicle_stats.completed_vehicles]

WorkloadSummary(shift, date_str, vehicle_stats, completed_stats, carryover_stats) ==
    LET completed_hours == completed_stats.completed_hours
        carryover_hours == IF carryover_stats = <<>> THEN 0
                           ELSE carryover_stats[1].carryover_hours
        new_hours == vehicle_stats.total_hours
        total_hours == new_hours + carryover_hours
    IN [shift |-> shift,
        date |-> date_str,
        new_hours |-> new_hours,
        carryover_hours |-> carryover_hours,
        total_hours |-> total_hours,
        completed_hours |-> completed_hours,
        percent_complete |-> WorkloadPercent(completed_hours, total_hours),
        vehicles_total |-> vehicle_stats.total_vehicles,
        vehicles_completed |-> vehicle_stats.completed_vehicles]

calculate_shift_workload ==
    \E shift \in UNION {ResolveShift(a) : a \in Shifts \cup {None}},
       target_date \in UNION {ResolveDate(a) : a \in Dates \cup {NoDate}} :
        LET date_str == target_date
        IN \E carryover_stats \in carryover_query(date_str, shift) :
             /\ ret' = [op |-> "calculate_shift_workload",
                        value |-> WorkloadSummary(shift, date_str,
                                                  vehicles_query(shift, date_str),
                                                  completed_query(shift, date_str),
                                                  carryover_stats)]
             /\ UNCHANGED store

(***************************************************************************)
(* get_stage_breakdown                                                     *)
(***************************************************************************)
\* the join without "? IS NULL OR": an omitted shift matches no vehicle
StageVehicleMatches_ShiftRequired(v, ps, date_str, shift) ==
    /\ v.current_stage_id = ps.id
    /\ SqlDate(v.arrival_time) = date_str
    /\ v.shift_assigned = shift

\* LEFT JOIN vehicles v ON v.current_stage_id = ps.id AND DATE(v.arrival_time) = ?
\*     AND (? IS NULL OR v.shift_assigned = ?)
StageVehicleMatches(v, ps, date_str, shift) ==
    /\ v.current_stage_id = ps.id
    /\ SqlDate(v.arrival_time) = date_str
    /\ (shift = None \/ v.shift_assigned = shift)

\* LEFT JOIN work_orders wo ON wo.vehicle_id = v.id, for one joined vehicle:
\* a row per work order of the vehicle, one row with wo NULL when it has none
VehicleRows(v) ==
    LET wos == SelectSeq(Indices(Len(work_orders)),
                         LAMBDA i : work_orders[i].vehicle_id = v)
    IN IF wos = <<>> THEN <<[v |-> v, wo |-> NULL]>>
       ELSE [k \in 1 .. Len(wos) |-> [v |-> v, wo |-> wos[k]]]

RECURSIVE JoinRowsFrom(_, _)
JoinRowsFrom(vs, i) ==
    IF i > Len(vs) THEN <<>> ELSE VehicleRows(vs[i]) \o JoinRowsFrom(vs, i + 1)

\* the joined rows of one stage: one row with v and wo NULL when no vehicle joins
StageRows(ps, date_str, shift) ==
    LET vs == SelectSeq(Indices(Len(vehicles)),
                        LAMBDA i : StageVehicleMatches(vehicles[i], ps, date_str, shift))
    IN IF vs = <<>> THEN <<[v |-> NULL, wo |-> NULL]>> ELSE JoinRowsFrom(vs, 1)

\* estimated hours summed whatever the work order's status
RemainingCase_AnyStatus(r) ==
    IF r.wo # NULL THEN work_orders[r.wo].estimated_hours ELSE 0

\* CASE WHEN wo.status != 'complete' THEN wo.estimated_hours ELSE 0 END
RemainingCase(r) ==
    IF r.wo # NULL /\ work_orders[r.wo].status # "complete"
    THEN work_orders[r.wo].estimated_hours ELSE 0

\* CASE WHEN wo.status = 'complete' THEN wo.actual_hours ELSE 0 END
CompletedCase(r) ==
    IF r.wo # NULL /\ work_orders[r.wo].status = "complete"
    THEN work_orders[r.wo].actual_hours ELSE 0

\* the group of one stage: GROUP BY ps.id, ps.stage_name, ps.stage_order
StageGroup(ps, date_str, shift) ==
    LET rows == StageRows(ps, date_str, shift)
    IN [stage_name |-> ps.stage_name,
        stage_order |-> ps.stage_order,
        vehicle_count |-> Len(SelectSeq(rows, LAMBDA r : r.v # NULL)),
        hours_remaining |->
            Coalesce(SqlSum([k \in 1 .. Len(rows) |-> RemainingCase(rows[k])]), 0),
        hours_completed |->
            Coalesce(SqlSum([k \in 1 .. Len(rows) |-> CompletedCase(rows[k])]), 0)]

\* the query without its ORDER BY: the groups in any order
OrderByStageOrder_Unordered ==
    LET n == Len(production_stages)
    IN {p \in [1 .. n -> 1 .. n] : \A i, j \in 1 .. n : i # j => p[i] # p[j]}

\* ORDER BY ps.stage_order: the orders of the groups the query may return
\* (stages of equal stage_order come in any order)
OrderByStageOrder ==
    LET n == Len(production_stages)
    IN {p \in [1 .. n -> 1 .. n] :
          /\ \A i, j \in 1 .. n : i # j => p[i] # p[j]
          /\ \A i, j \in 1 .. n :
               i < j => production_stages[p[i]].stage_order
                          <= production_stages[p[j]].stage_order}

stage_query(p, date_str, shift) ==
    [k \in 1 .. Len(production_stages) |-> StageGroup(production_stages[p[k]], date_str, shift)]

\* for row in results: row['percent_complete'] = ...
WithPercent(row) ==
    LET total == row.hours_remaining + row.hours_completed
    IN [stage_name |-> row.stage_name,
        stage_order |-> row.stage_order,
        vehicle_count |-> row.vehicle_count,
        hours_remaining |-> row.hours_remaining,
        hours_completed |-> row.hours_completed,
        percent_complete |-> StagePercent(row.hours_completed, total)]

StageBreakdown(results) == [k \in 1 .. Len(results) |-> WithPercent(results[k])]

get_stage_breakdown ==
    \E shift \in Shifts \cup {None},
       target_date \in UNION {ResolveDate(a) : a \in Dates \cup {NoDate}} :
        LET date_str == target_date
        IN \E p \in OrderByStageOrder :
             /\ ret' = [op |-> "get_stage_breakdown", shift |-> shift, date |-> date_str,
                        value |-> StageBreakdown(stage_query(p, date_str, shift))]
             /\ UNCHANGED store

(***************************************************************************)
(* The store's writers (other processes: the display only reads).  A       *)
(* returned value is kept in ret for as long as the store is the one the   *)
(* call read.                                                              *)
(***************************************************************************)
InsertVehicle(max, shifts, arrivals, hours, stages, statuses) ==
    /\ Rows < max
    /\ \E s \in shifts, t \in arrivals, h \in hours, g \in stages, st \in statuses :
         vehicles' = Append(vehicles, [shift_assigned |-> s, arrival_time |-> t,
                                       estimated_labor_hours |-> h,
                                       current_stage_id |-> g, status |-> st])
    /\ ret' = [op |-> "none"]
    /\ UNCHANGED <<work_orders, shift_summaries, production_stages>>

InsertWorkOrder(max, actuals) ==
    /\ Rows < max
    /\ \E v \in DOMAIN vehicles, e \in EstimatedHours, a \in actuals,
          st \in WorkOrderStatuses :
         work_orders' = Append(work_orders, [vehicle_id |-> v, estimated_hours |-> e,
                                             actual_hours |-> a, status |-> st])
    /\ ret' = [op |-> "none"]
    /\ UNCHANGED <<vehicles, shift_summaries, production_stages>>

InsertShiftSummary(max) ==
    /\ Rows < max
    /\ \E d \in Dates, s \in Shifts, c \in CarryoverHours, t \in CreatedAts :
         shift_summaries' = Append(shift_summaries,
                                   [shift_date |-> d, shift_type |-> s,
                                    carryover_hours |-> c, created_at |-> t])
    /\ ret' = [op |-> "none"]
    /\ UNCHANGED <<vehicles, work_orders, production_stages>>

InsertStage(max) ==
    /\ Rows < max
    /\ Len(production_stages) < MaxStages
    /\ Len(production_stages) < Len(StageNames)
    /\ \E o \in StageOrders :
         production_stages' = Append(production_stages,
                                     [id |-> Len(production_stages) + 1,
                                      stage_name |-> StageNames[Len(production_stages) + 1],
                                      stage_order |-> o])
    /\ ret' = [op |-> "none"]
    /\ UNCHANGED <<vehicles, work_orders, shift_summaries>>

\* no local of load_data is set: a local is the empty list until it is
\* assigned, and the one-element list of its value from then on
NoFrame ==
    [shift |-> <<>>, date_str |-> <<>>, vehicle_stats |-> <<>>,
     completed_stats |-> <<>>, carryover_stats |-> <<>>, shift_data |-> <<>>,
     stage_date_str |-> <<>>, exc |-> <<>>, started |-> <<>>]

\* no load_data is running
NoProcess ==
    /\ clock = 0
    /\ database = "ok"
    /\ pc = "idle"
    /\ frame = NoFrame
    /\ hist = {}
    /\ log = <<>>

Init ==
    /\ vehicles = <<>>
    /\ work_orders = <<>>
    /\ shift_summaries = <<>>
    /\ production_stages = <<>>
    /\ ret = [op |-> "none"]
    /\ NoProcess

\* the workload's vehicles all arrive on day 1; it is asked for days 1 and 2
WorkloadInsertVehicle ==
    /\ InsertVehicle(MaxWorkloadRows, Shifts, {44}, LaborHours, {NULL}, VehicleStatuses)
    /\ UNCHANGED process

WorkloadInsertWorkOrder ==
    /\ InsertWorkOrder(MaxWorkloadRows, ActualHours)
    /\ UNCHANGED process

WorkloadInsertShiftSummary ==
    /\ InsertShiftSummary(MaxWorkloadRows)
    /\ UNCHANGED process

WorkloadCall ==
    /\ calculate_shift_workload
    /\ UNCHANGED process

NextWorkload ==
    \/ WorkloadInsertVehicle
    \/ WorkloadInsertWorkOrder
    \/ WorkloadInsertShiftSummary
    \/ WorkloadCall

SpecWorkload == Init /\ [][NextWorkload]_vars

\* a vehicle is in a stage of the catalog
StageInsertVehicle ==
    /\ InsertVehicle(MaxStageRows, Shifts, ArrivalTimes, {21},
                     {ps.id : ps \in Range(production_stages)}, {"in_progress"})
    /\ UNCHANGED process

StageInsertWorkOrder ==
    /\ InsertWorkOrder(MaxStageRows, ActualHours)
    /\ UNCHANGED process

StageInsertStage ==
    /\ InsertStage(MaxStageRows)
    /\ UNCHANGED process

StageCall ==
    /\ get_stage_breakdown
    /\ UNCHANGED process

NextStages ==
    \/ StageInsertStage
    \/ StageInsertVehicle
    \/ StageInsertWorkOrder
    \/ StageCall

SpecStages == Init /\ [][NextStages]_vars

NextShift == GetCurrentShiftCall

SpecShift == Init /\ [][NextShift]_vars

(***************************************************************************)
(* The percentage rule on its own: the hours are drawn at the start and    *)
(* each call site's expression is applied to them.                         *)
(***************************************************************************)
InitPercent ==
    /\ vehicles = <<>>
    /\ work_orders = <<>>
    /\ shift_summaries = <<>>
    /\ production_stages = <<>>
    /\ \E total \in 0 .. MaxPercentHours, completed \in 0 .. MaxPercentHours :
         /\ completed <= total
         /\ ret = [op |-> "hours", completed |-> completed, total |-> total]
    /\ NoProcess

WorkloadPercentCall ==
    /\ ret.op = "hours"
    /\ ret' = [op |-> "WorkloadPercent", completed |-> ret.completed, total |-> ret.total,
               value |-> WorkloadPercent(ret.completed, ret.total)]
    /\ UNCHANGED store
    /\ UNCHANGED process

StagePercentCall ==
    /\ ret.op = "hours"
    /\ ret' = [op |-> "StagePercent", completed |-> ret.completed, total |-> ret.total,
               value |-> StagePercent(ret.completed, ret.total)]
    /\ UNCHANGED store
    /\ UNCHANGED process

NextPercent ==
    \/ WorkloadPercentCall
    \/ StagePercentCall

SpecPercent == InitPercent /\ [][NextPercent]_vars

(***************************************************************************)
(* Both calculators over one store (get_current_shift is part of           *)
(* calculate_shift_workload here, and is called on its own under SpecShift)*)
(***************************************************************************)
Next ==
    \/ NextWorkload
    \/ NextStages

Spec == Init /\ [][Next]_vars

(***************************************************************************)
(* The demo data                                                           *)
(***************************************************************************)
\* get_demo_data: the shift of one clock reading, the date of a later one,
\* and the fixed figures (126.0, 6.0, 132.0 and 87.0 hours, in half hours)
get_demo_data(now, today) ==
    [shift |-> get_current_shift(now),
     date |-> today,
     new_hours |-> 252,
     carryover_hours |-> 12,
     total_hours |-> 264,
     completed_hours |-> 174,
     percent_complete |-> 65,
     vehicles_total |-> 48,
     vehicles_completed |-> 32]

\* get_demo_stages (18.5 and 42.0, 12.0 and 24.0, 3.0 and 9.0, 8.0 and 12.0
\* hours, in half hours)
get_demo_stages ==
    << [stage_name |-> "Installation", stage_order |-> 1, vehicle_count |-> 12,
        hours_remaining |-> 37, hours_completed |-> 84, percent_complete |-> 69],
       [stage_name |-> "PPO", stage_order |-> 2, vehicle_count |-> 8,
        hours_remaining |-> 24, hours_completed |-> 48, percent_complete |-> 66],
       [stage_name |-> "Shuttle", stage_order |-> 3, vehicle_count |-> 6,
        hours_remaining |-> 6, hours_completed |-> 18, percent_complete |-> 75],
       [stage_name |-> "FQA", stage_order |-> 4, vehicle_count |-> 10,
        hours_remaining |-> 16, hours_completed |-> 24, percent_complete |-> 60] >>

(***************************************************************************)
(* load_data, step by step: every clock read and every query is a step of  *)
(* its own, and the clock, the store file and the writers move in between. *)
(***************************************************************************)
\* the wall clock stops here
MaxClock == 50

\* the hour before 06:00, before 18:00 and before midnight of day 1
ClockStarts == {29, 41, 47}

Now == [hour |-> clock % 24, minute |-> 0]
Today == clock \div 24

Exceptions == {"FileNotFoundError", "OperationalError"}

\* get_connection: FileNotFoundError when DATABASE_PATH does not exist, and
\* sqlite3's error when the file cannot be opened or queried
QueryRaises ==
    IF database = "missing" THEN "FileNotFoundError" ELSE "OperationalError"

\* "except FileNotFoundError": a failing query of an existing store gets out
Catches_FileNotFoundOnly(exc) == exc = "FileNotFoundError"

\* "except Exception" of load_data
Catches(exc) == exc \in Exceptions

\* an exception leaves the try block: into the handler when the except clause
\* catches it, out of load_data when it does not
Raise(exc) ==
    /\ frame' = [frame EXCEPT !.exc = <<exc>>]
    /\ pc' = IF Catches(exc) THEN "except" ELSE "raised"
    /\ UNCHANGED ret

\* load_data is called: the try block calls calculate_shift_workload()
LoadData ==
    /\ pc = "idle"
    /\ pc' = "get_current_shift"
    /\ frame' = [NoFrame EXCEPT !.started = <<clock>>]
    /\ ret' = [op |-> "none"]
    /\ UNCHANGED <<store, clock, database>>

\* if shift is None: shift = get_current_shift()
WorkloadGetCurrentShift ==
    /\ pc = "get_current_shift"
    /\ frame' = [frame EXCEPT !.shift = <<get_current_shift(Now)>>]
    /\ pc' = "today"
    /\ UNCHANGED <<store, ret, clock, database>>

\* if target_date is None: target_date = date.today()
WorkloadToday ==
    /\ pc = "today"
    /\ frame' = [frame EXCEPT !.date_str = <<Today>>]
    /\ pc' = "vehicles_query"
    /\ UNCHANGED <<store, ret, clock, database>>

\* vehicle_stats = query_one(vehicles_query, (shift, date_str))
WorkloadVehiclesQuery ==
    /\ pc = "vehicles_query"
    /\ IF database = "ok"
       THEN /\ frame' = [frame EXCEPT !.vehicle_stats =
                            <<vehicles_query(frame.shift[1], frame.date_str[1])>>]
            /\ pc' = "completed_query"
            /\ UNCHANGED ret
       ELSE Raise(QueryRaises)
    /\ UNCHANGED <<store, clock, database>>

\* completed_stats = query_one(completed_query, (shift, date_str))
WorkloadCompletedQuery ==
    /\ pc = "completed_query"
    /\ IF database = "ok"
       THEN /\ frame' = [frame EXCEPT !.completed_stats =
                            <<completed_query(frame.shift[1], frame.date_str[1])>>]
            /\ pc' = "carryover_query"
            /\ UNCHANGED ret
       ELSE Raise(QueryRaises)
    /\ UNCHANGED <<store, clock, database>>

\* carryover_stats = query_one(carryover_query, (date_str, shift)), and the
\* summary calculate_shift_workload returns into shift_data
WorkloadCarryoverQuery ==
    /\ pc = "carryover_query"
    /\ IF database = "ok"
       THEN /\ \E carryover_stats \in carryover_query(frame.date_str[1], frame.shift[1]) :
                 frame' = [frame EXCEPT
                     !.carryover_stats = <<carryover_stats>>,
                     !.shift_data = <<WorkloadSummary(frame.shift[1], frame.date_str[1],
                                                      frame.vehicle_stats[1],
                                                      frame.completed_stats[1],
                                                      carryover_stats)>>]
            /\ pc' = "stage_today"
            /\ UNCHANGED ret
       ELSE Raise(QueryRaises)
    /\ UNCHANGED <<store, clock, database>>

\* get_stage_breakdown(shift_data['shift']): target_date = date.today()
StageToday ==
    /\ pc = "stage_today"
    /\ frame' = [frame EXCEPT !.stage_date_str = <<Today>>]
    /\ pc' = "stage_query"
    /\ UNCHANGED <<store, ret, clock, database>>

\* the pair the try block returns
LiveResult(shift_data, stage_data) == <<shift_data, stage_data>>

\* results = query_df(query, (date_str, shift, shift)), the percentages, and
\* return shift_data, stage_data
StageQuery ==
    /\ pc = "stage_query"
    /\ IF database = "ok"
       THEN /\ \E p \in OrderByStageOrder :
                 LET stage_data ==
                         StageBreakdown(stage_query(p, frame.stage_date_str[1],
                                                    frame.shift_data[1].shift))
                 IN ret' = [op |-> "load_data",
                            value |-> LiveResult(frame.shift_data[1], stage_data)]
            /\ pc' = "done"
            /\ UNCHANGED frame
       ELSE Raise(QueryRaises)
    /\ UNCHANGED <<store, clock, database>>

\* the handler: get_demo_data() reads the clock for its shift ...
DemoGetCurrentShift ==
    /\ pc = "except"
    /\ frame' = [frame EXCEPT !.shift = <<get_current_shift(Now)>>]
    /\ pc' = "demo_today"
    /\ UNCHANGED <<store, ret, clock, database>>

\* ... and again for its date; return get_demo_data(), get_demo_stages()
DemoReturn ==
    /\ pc = "demo_today"
    /\ ret' = [op |-> "load_data",
               value |-> <<[get_demo_data(Now, Today) EXCEPT !.shift = frame.shift[1]],
                           get_demo_stages>>]
    /\ pc' = "done"
    /\ UNCHANGED <<store, frame, clock, database>>

\* the page is refreshed (main runs again after REFRESH_INTERVAL_MS)
Refresh ==
    /\ pc = "done"
    /\ pc' = "idle"
    /\ frame' = NoFrame
    /\ UNCHANGED <<store, ret, clock, database>>

\* the steps of calculate_shift_workload inside load_data
WorkloadStep ==
    \/ WorkloadGetCurrentShift
    \/ WorkloadToday
    \/ WorkloadVehiclesQuery
    \/ WorkloadCompletedQuery
    \/ WorkloadCarryoverQuery

LoadStep ==
    \/ LoadData
    \/ WorkloadStep
    \/ StageToday
    \/ StageQuery
    \/ DemoGetCurrentShift
    \/ DemoReturn
    \/ Refresh

\* an hour passes
Tick ==
    /\ clock < MaxClock
    /\ clock' = clock + 1
    /\ UNCHANGED <<store, ret, database, pc, frame>>

\* the store file is removed or replaced by something SQLite cannot read
StoreLost ==
    /\ database = "ok"
    /\ database' \in {"missing", "unreadable"}
    /\ UNCHANGED <<store, ret, clock, pc, frame>>

StoreBack ==
    /\ database # "ok"
    /\ database' = "ok"
    /\ UNCHANGED <<store, ret, clock, pc, frame>>

\* the stores load_data is run against
EmptyStore ==
    [vehicles |-> <<>>, work_orders |-> <<>>, shift_summaries |-> <<>>,
     production_stages |-> <<>>]

QuietStore ==
    [vehicles |-> << [shift_assigned |-> "day", arrival_time |-> 44,
                      estimated_labor_hours |-> 21, current_stage_id |-> 1,
                      status |-> "in_progress"],
                     [shift_assigned |-> "night", arrival_time |-> 56,
                      estimated_labor_hours |-> 29, current_stage_id |-> 2,
                      status |-> "delivered"] >>,
     work_orders |-> << [vehicle_id |-> 1, estimated_hours |-> 21,
                         actual_hours |-> 29, status |-> "complete"],
                        [vehicle_id |-> 2, estimated_hours |-> 21,
                         actual_hours |-> NULL, status |-> "pending"] >>,
     shift_summaries |-> << [shift_date |-> 1, shift_type |-> "night",
                             carryover_hours |-> 29, created_at |-> 1] >>,
     production_stages |-> << [id |-> 1, stage_name |-> StageNames[1], stage_order |-> 1],
                              [id |-> 2, stage_name |-> StageNames[2], stage_order |-> 2] >>]

\* a busy day shift of day 1: 48 vehicles of 3.5 hours or none, 32 of them
\* delivered, 36 of them in the four stages, a pending and a complete work
\* order in each stage, 6 hours carried over
BusyStore ==
    [vehicles |->
        [i \in 1 .. 48 |->
            [shift_assigned |-> "day", arrival_time |-> 44,
             estimated_labor_hours |-> IF i <= 36 THEN 7 ELSE NULL,
             current_stage_id |-> IF i <= 12 THEN 1 ELSE IF i <= 20 THEN 2
                                  ELSE IF i <= 26 THEN 3 ELSE IF i <= 36 THEN 4
                                  ELSE NULL,
             status |-> IF i <= 32 THEN "delivered" ELSE "in_progress"]],
     work_orders |->
        << [vehicle_id |-> 1, estimated_hours |-> 37, actual_hours |-> NULL, status |-> "pending"],
           [vehicle_id |-> 2, estimated_hours |-> 21, actual_hours |-> 84, status |-> "complete"],
           [vehicle_id |-> 13, estimated_hours |-> 24, actual_hours |-> NULL, status |-> "pending"],
           [vehicle_id |-> 14, estimated_hours |-> 21, actual_hours |-> 48, status |-> "complete"],
           [vehicle_id |-> 21, estimated_hours |-> 6, actual_hours |-> NULL, status |-> "pending"],
           [vehicle_id |-> 22, estimated_hours |-> 21, actual_hours |-> 18, status |-> "complete"],
           [vehicle_id |-> 27, estimated_hours |-> 16, actual_hours |-> NULL, status |-> "pending"],
           [vehicle_id |-> 28, estimated_hours |-> 21, actual_hours |-> 24, status |-> "complete"] >>,
     shift_summaries |-> << [shift_date |-> 1, shift_type |-> "day",
                             carryover_hours |-> 12, created_at |-> 1] >>,
     production_stages |->
        [i \in 1 .. 4 |-> [id |-> i, stage_name |-> StageNames[i], stage_order |-> i]]]

LoadStores == {EmptyStore, QuietStore, BusyStore}

InitLoad ==
    /\ \E s \in LoadStores :
         /\ vehicles = s.vehicles
         /\ work_orders = s.work_orders
         /\ shift_summaries = s.shift_summaries
         /\ production_stages = s.production_stages
    /\ ret = [op |-> "none"]
    /\ clock \in ClockStarts
    /\ database \in {"ok", "missing", "unreadable"}
    /\ pc = "idle"
    /\ frame = NoFrame
    /\ hist = {}
    /\ log = <<>>

LoadRun ==
    /\ LoadStep
    /\ UNCHANGED <<hist, log>>

LoadTick ==
    /\ Tick
    /\ UNCHANGED <<hist, log>>

LoadStoreLost ==
    /\ StoreLost
    /\ UNCHANGED <<hist, log>>

LoadStoreBack ==
    /\ StoreBack
    /\ UNCHANGED <<hist, log>>

NextLoad ==
    \/ LoadRun
    \/ LoadTick
    \/ LoadStoreLost
    \/ LoadStoreBack

SpecLoad == InitLoad /\ [][NextLoad]_vars

(***************************************************************************)
(* load_data while other processes write the store: every query opens its  *)
(* own connection (query_df), so a writer's commit may fall between two    *)
(* queries of one call.  hist keeps the summaries of the store states the  *)
(* call has lived through.                                                 *)
(***************************************************************************)
MaxRaceRows == 2

\* 10:00 and 22:00 of day 1
RaceClocks == {34, 46}

\* the summaries calculate_shift_workload gives on the store as it is now
SummariesNow ==
    LET shift == get_current_shift(Now)
        date_str == Today
    IN {WorkloadSummary(shift, date_str, vehicles_query(shift, date_str),
                        completed_query(shift, date_str), carryover_stats) :
            carryover_stats \in carryover_query(date_str, shift)}

\* a writer's commit: the state it replaces has been lived through
Lived ==
    hist' = IF pc = "idle" THEN {} ELSE hist \cup SummariesNow

RaceInsertVehicle ==
    /\ InsertVehicle(MaxRaceRows, Shifts, {44}, {21}, {NULL}, VehicleStatuses)
    /\ Lived
    /\ UNCHANGED <<clock, database, pc, frame, log>>

RaceInsertWorkOrder ==
    /\ InsertWorkOrder(MaxRaceRows, {29})
    /\ Lived
    /\ UNCHANGED <<clock, database, pc, frame, log>>

RaceInsertShiftSummary ==
    /\ InsertShiftSummary(MaxRaceRows)
    /\ Lived
    /\ UNCHANGED <<clock, database, pc, frame, log>>

\* load_data up to the return of calculate_shift_workload
RaceRun ==
    /\ LoadData \/ WorkloadStep
    /\ UNCHANGED <<hist, log>>

InitRace ==
    /\ vehicles = <<>>
    /\ work_orders = <<>>
    /\ shift_summaries = <<>>
    /\ production_stages = <<>>
    /\ ret = [op |-> "none"]
    /\ clock \in RaceClocks
    /\ database = "ok"
    /\ pc = "idle"
    /\ frame = NoFrame
    /\ hist = {}
    /\ log = <<>>

NextRace ==
    \/ RaceInsertVehicle
    \/ RaceInsertWorkOrder
    \/ RaceInsertShiftSummary
    \/ RaceRun

SpecRace == InitRace /\ [][NextRace]_vars

(***************************************************************************)
(* The calculators called again and again: log keeps what the calls have   *)
(* returned since the store last changed.                                  *)
(***************************************************************************)
MaxRepeatRows == 2
MaxRepeatCalls == 2

RepeatInsertVehicle ==
    /\ InsertVehicle(MaxRepeatRows, Shifts, {44}, {21},
                     {NULL} \cup {ps.id : ps \in Range(production_stages)}, {"delivered"})
    /\ log' = <<>>
    /\ UNCHANGED <<clock, database, pc, frame, hist>>

RepeatInsertWorkOrder ==
    /\ InsertWorkOrder(MaxRepeatRows, {29})
    /\ log' = <<>>
    /\ UNCHANGED <<clock, database, pc, frame, hist>>

RepeatInsertShiftSummary ==
    /\ InsertShiftSummary(MaxRepeatRows)
    /\ log' = <<>>
    /\ UNCHANGED <<clock, database, pc, frame, hist>>

RepeatInsertStage ==
    /\ InsertStage(MaxRepeatRows)
    /\ log' = <<>>
    /\ UNCHANGED <<clock, database, pc, frame, hist>>

\* the call a returned value answers: the calculator, its shift and its date
CallOf(r) ==
    IF r.op = "calculate_shift_workload"
    THEN <<r.op, r.value.shift, r.value.date>>
    ELSE <<r.op, r.shift, r.date>>

\* a call after the first repeats the first one's arguments
RepeatWorkloadCall ==
    /\ Len(log) < MaxRepeatCalls
    /\ calculate_shift_workload
    /\ log # <<>> => CallOf(ret') = CallOf(log[1])
    /\ log' = Append(log, ret')
    /\ UNCHANGED <<clock, database, pc, frame, hist>>

RepeatStageCall ==
    /\ Len(log) < MaxRepeatCalls
    /\ get_stage_breakdown
    /\ log # <<>> => CallOf(ret') = CallOf(log[1])
    /\ log' = Append(log, ret')
    /\ UNCHANGED <<clock, database, pc, frame, hist>>

NextRepeat ==
    \/ RepeatInsertVehicle
    \/ RepeatInsertWorkOrder
    \/ RepeatInsertShiftSummary
    \/ RepeatInsertStage
    \/ RepeatWorkloadCall
    \/ RepeatStageCall

SpecRepeat == Init /\ [][NextRepeat]_vars

(***************************************************************************)
(* Properties                                                              *)
(***************************************************************************)
RECURSIVE SumOver(_, _)
\* the sum of f over the finite set S, a NULL counting as no hours
SumOver(S, f) ==
    IF S = {} THEN 0
    ELSE LET x == CHOOSE y \in S : TRUE
         IN (IF f[x] = NULL THEN 0 ELSE f[x]) + SumOver(S \ {x}, f)

IsWorkload == ret.op = "calculate_shift_workload"
IsBreakdown == ret.op = "get_stage_breakdown"

\* the vehicles of the shift and arrival date of the returned summary
ShiftVehicles ==
    {i \in DOMAIN vehicles :
        /\ vehicles[i].shift_assigned = ret.value.shift
        /\ vehicles[i].arrival_time \div 24 = ret.value.date}

\* the summaries of the (date, shift) pair of the returned summary
PairSummaries ==
    {i \in DOMAIN shift_summaries :
        /\ shift_summaries[i].shift_date = ret.value.date
        /\ shift_summaries[i].shift_type = ret.value.shift}

\* the stage a returned row is about (stage names are unique in the catalog)
StageOfRow(row) ==
    CHOOSE ps \in Range(production_stages) : ps.stage_name = row.stage_name

\* the vehicles matched to stage ps by the returned breakdown's date and shift
MatchedVehicles(ps) ==
    {i \in DOMAIN vehicles :
        /\ vehicles[i].current_stage_id = ps.id
        /\ vehicles[i].arrival_time \div 24 = ret.date
        /\ (ret.shift # None => vehicles[i].shift_assigned = ret.shift)}

\* the work orders of the vehicles in V that are, or are not, complete
OrdersOf(V, complete) ==
    {i \in DOMAIN work_orders :
        /\ work_orders[i].vehicle_id \in V
        /\ (work_orders[i].status = "complete") = complete}

\* C1: percent_complete is floor(completed / denominator * 100) when the
\* denominator is positive, and 0 when it is 0, at both call sites
C1_PercentIsFloor ==
    ret.op \in {"WorkloadPercent", "StagePercent"} =>
        IF ret.total > 0
        THEN /\ ret.value * ret.total <= 100 * ret.completed
             /\ 100 * ret.completed < (ret.value + 1) * ret.total
        ELSE ret.value = 0

\* C2: percent_complete of every workload summary is between 0 and 100
C2_PercentBetween0And100 ==
    IsWorkload => ret.value.percent_complete \in 0 .. 100

\* C3: vehicle_count of every stage is the number of distinct matched vehicles
C3_VehicleCountDistinct ==
    IsBreakdown =>
        \A k \in DOMAIN ret.value :
            ret.value[k].vehicle_count =
                Cardinality(MatchedVehicles(StageOfRow(ret.value[k])))

\* C4: total_hours is new_hours + carryover_hours, new_hours being the summed
\* estimated labor hours of the vehicles of the shift and arrival date
C4_TotalIsNewPlusCarryover ==
    IsWorkload =>
        /\ ret.value.total_hours = ret.value.new_hours + ret.value.carryover_hours
        /\ ret.value.new_hours =
               SumOver(ShiftVehicles,
                       [i \in DOMAIN vehicles |-> vehicles[i].estimated_labor_hours])

C4_Witness ==
    /\ IsWorkload
    /\ Cardinality(ShiftVehicles) = 2
    /\ ret.value.new_hours = 50
    /\ ret.value.carryover_hours = 29
    /\ ret.value.total_hours = 79

\* C5: carryover_hours is the carryover of a most recently created summary of
\* the requested (date, shift) pair (a NULL field reading as 0); without such
\* a summary it is 0 and total_hours is new_hours
C5_CarryoverIsLatest ==
    IsWorkload =>
        IF PairSummaries = {}
        THEN /\ ret.value.carryover_hours = 0
             /\ ret.value.total_hours = ret.value.new_hours
        ELSE \E i \in PairSummaries :
               /\ \A j \in PairSummaries :
                    shift_summaries[j].created_at <= shift_summaries[i].created_at
               /\ ret.value.carryover_hours =
                      (IF shift_summaries[i].carryover_hours = NULL THEN 0
                       ELSE shift_summaries[i].carryover_hours)

\* an older summary of the pair, inserted last, and a summary of another pair
\* are both passed over
C5_Witness ==
    /\ IsWorkload
    /\ Len(shift_summaries) = 3
    /\ PairSummaries = {1, 3}
    /\ shift_summaries[1].created_at > shift_summaries[3].created_at
    /\ shift_summaries[1].carryover_hours = 29
    /\ shift_summaries[3].carryover_hours = NULL
    /\ shift_summaries[2].carryover_hours = NULL
    /\ ret.value.carryover_hours = 29

\* C6: vehicles_completed (the delivered vehicles of the shift and date) is at
\* most vehicles_total (all vehicles of the shift and date)
C6_CompletedAtMostTotal ==
    IsWorkload =>
        /\ ret.value.vehicles_completed <= ret.value.vehicles_total
        /\ ret.value.vehicles_total = Cardinality(ShiftVehicles)
        /\ ret.value.vehicles_completed =
               Cardinality({i \in ShiftVehicles : vehicles[i].status = "delivered"})

C6_Witness ==
    /\ IsWorkload
    /\ Len(vehicles) = 3
    /\ ret.value.vehicles_total = 2
    /\ ret.value.vehicles_completed = 1
    /\ \E i \in DOMAIN vehicles : i \notin ShiftVehicles /\ vehicles[i].status = "delivered"

\* C7: the breakdown has exactly one entry per stage of the catalog, in
\* non-decreasing stage_order, a stage without matched vehicles being all zero
C7_OneEntryPerStageInOrder ==
    IsBreakdown =>
        /\ Len(ret.value) = Len(production_stages)
        /\ \A ps \in Range(production_stages) :
             Cardinality({k \in DOMAIN ret.value :
                             /\ ret.value[k].stage_name = ps.stage_name
                             /\ ret.value[k].stage_order = ps.stage_order}) = 1
        /\ \A k \in DOMAIN ret.value : \A j \in DOMAIN ret.value :
             k < j => ret.value[k].stage_order <= ret.value[j].stage_order
        /\ \A k \in DOMAIN ret.value :
             MatchedVehicles(StageOfRow(ret.value[k])) = {} =>
                 /\ ret.value[k].vehicle_count = 0
                 /\ ret.value[k].hours_remaining = 0
                 /\ ret.value[k].hours_completed = 0
                 /\ ret.value[k].percent_complete = 0

\* the catalog lists the later stage first, and one stage has no vehicle
C7_Witness ==
    /\ IsBreakdown
    /\ Len(production_stages) = 2
    /\ production_stages[1].stage_order > production_stages[2].stage_order
    /\ ret.value[1].stage_name = production_stages[2].stage_name
    /\ ret.value[1].vehicle_count = 0
    /\ ret.value[2].vehicle_count > 0

C9_ShiftByHour ==
    ret.op = "get_current_shift" =>
        /\ ret.now.hour \in 6 .. 17 => ret.value = "day"
        /\ ret.now.hour \in (0 .. 5) \cup (18 .. 23) => ret.value = "night"

C9_Witness ==
    /\ ret.op = "get_current_shift"
    /\ ret.now = [hour |-> 17, minute |-> 59]
    /\ ret.value = "day"

\* C10: with a shift given only the vehicles of that shift are aggregated,
\* without one the vehicles of every shift are; the arrival date always filters
C10_ShiftFilterOptional ==
    IsBreakdown =>
        \A k \in DOMAIN ret.value :
            LET ps == StageOfRow(ret.value[k])
                V == {i \in DOMAIN vehicles :
                        /\ vehicles[i].current_stage_id = ps.id
                        /\ vehicles[i].arrival_time \div 24 = ret.date
                        /\ IF ret.shift = None THEN TRUE
                           ELSE vehicles[i].shift_assigned = ret.shift}
                orders == {i \in DOMAIN work_orders : work_orders[i].vehicle_id \in V}
            IN /\ (ret.value[k].vehicle_count = 0) = (V = {})
               /\ ret.value[k].vehicle_count >= Cardinality(V)
               /\ ret.value[k].hours_remaining + ret.value[k].hours_completed =
                      SumOver(orders,
                              [i \in DOMAIN work_orders |->
                                  IF work_orders[i].status = "complete"
                                  THEN work_orders[i].actual_hours
                                  ELSE work_orders[i].estimated_hours])

\* no shift given: a day and a night vehicle of the date are aggregated
\* together, a vehicle of another date is not
C10_Witness ==
    /\ IsBreakdown
    /\ ret.shift = None
    /\ Len(vehicles) = 3
    /\ \E k \in DOMAIN ret.value :
         /\ ret.value[k].vehicle_count = 2
         /\ \E i, j \in MatchedVehicles(StageOfRow(ret.value[k])) :
              vehicles[i].shift_assigned # vehicles[j].shift_assigned
         /\ \E i \in DOMAIN vehicles :
              /\ vehicles[i].current_stage_id = StageOfRow(ret.value[k]).id
              /\ vehicles[i].arrival_time \div 24 # ret.date

\* load_data has returned from its try block, or from its handler
LoadedLive == pc = "done" /\ ret.op = "load_data" /\ frame.exc = <<>>
LoadedDemo == pc = "done" /\ ret.op = "load_data" /\ frame.exc # <<>>

\* the values the handler of load_data can return
DemoResults ==
    {<<get_demo_data([hour |-> h, minute |-> 0], d), get_demo_stages>> :
        h \in Hours, d \in 0 .. (MaxClock \div 24)}

\* C11: the value load_data returns tells a demo result from a live one: a
\* run whose queries all succeeded never returns a value that a failed run
\* returns
C11_DemoToldFromLive ==
    LoadedLive => ret.value \notin DemoResults

\* ORDER BY leaves no choice to the engine for the call c: at most one summary
\* of the pair has the greatest created_at, no two stages have one stage_order
NoTie(c) ==
    IF c[1] = "calculate_shift_workload"
    THEN LET pair == {i \in DOMAIN shift_summaries :
                         /\ shift_summaries[i].shift_type = c[2]
                         /\ shift_summaries[i].shift_date = c[3]}
         IN Cardinality({i \in pair : \A j \in pair :
                shift_summaries[j].created_at <= shift_summaries[i].created_at}) <= 1
    ELSE \A i, j \in DOMAIN production_stages :
             i # j => production_stages[i].stage_order # production_stages[j].stage_order

C13_AllOrNothing ==
    /\ pc # "raised"
    /\ LoadedLive =>
         \E d2 \in 0 .. (MaxClock \div 24), p \in OrderByStageOrder,
            c \in carryover_query(ret.value[1].date, ret.value[1].shift) :
             LET sh == ret.value[1].shift
                 d == ret.value[1].date
             IN ret.value = <<WorkloadSummary(sh, d, vehicles_query(sh, d),
                                              completed_query(sh, d), c),
                              StageBreakdown(stage_query(p, d2, sh))>>
    /\ LoadedDemo => ret.value \in DemoResults

\* the stage query fails on an unreadable store after the summary has been
\* computed: the summary is dropped and the demo pair returned
C13_Witness ==
    /\ LoadedDemo
    /\ frame.exc = <<"OperationalError">>
    /\ frame.shift_data # <<>>
    /\ frame.shift_data[1].vehicles_total = 1
    /\ ret.value[1].vehicles_total = 48
    /\ ret.value[2] = get_demo_stages

\* C14: in one load_data without shift or date, the summary and the breakdown
\* are computed for the same shift and the same date, and that shift and date
\* are those of one instant of the run, wherever the clock is at each read
C14_OneShiftAndDate ==
    LoadedLive =>
        /\ frame.shift[1] = ret.value[1].shift
        /\ frame.stage_date_str[1] = ret.value[1].date
        /\ \E t \in frame.started[1] .. clock :
             /\ get_current_shift([hour |-> t % 24, minute |-> 0]) = ret.value[1].shift
             /\ t \div 24 = ret.value[1].date

\* C15: the summary calculate_shift_workload returns while writers update the
\* store is the summary of one store state that existed during the call
C15_OneStoreState ==
    (pc = "stage_today" /\ frame.shift_data # <<>>) =>
        frame.shift_data[1] \in hist \cup SummariesNow

====
